---- MODULE Spec2Model ----
(***************************************************************************)
(* Model of src/auth/index.js: the middleware built by one call of         *)
(* createAuthMiddleware (attachUser, requireAuth, optionalAuth,            *)
(* requireAdmin), run by Express as the route of a request: any chain of   *)
(* up to MaxGates middleware, then the route's handler.  The users store   *)
(* is shared and may be rewritten by the identity service meanwhile.       *)
(* Spec follows one request, SpecFair adds that findOne and session.save   *)
(* answer, SpecLog adds a logger function that throws, SpecTwo follows two *)
(* requests in flight together, and SpecConfig is the host's call of       *)
(* createSessionConfig.                                                    *)
(*                                                                         *)
(* JavaScript values are written as tokens ("undefined", "null", "true",   *)
(* "1", "''", ...) so that truthiness is computed as the language does.    *)
(* A path is a tuple of characters; the empty tuple stands for a missing   *)
(* (undefined or empty, both falsy) string.                                *)
(***************************************************************************)
EXTENDS Integers, Sequences, FiniteSets, TLC

\* ------------------------------------------------------------------ bounds
\* The longest middleware chain a route runs before its handler.
MaxGates == 3
\* How many times the identity service rewrites the users store while a
\* request is in flight.
MaxStoreChanges == 1
\* The middleware two requests in flight together run in all.
MaxGatesBoth == 3

Reqs == {1, 2}

\* -------------------------------------------------------- JavaScript values
Falsy == {"undefined", "null", "false", "0", "''"}
Truthy(v) == v \notin Falsy
\* a || b
Or(a, b) == IF Truthy(a) THEN a ELSE b

\* s.startsWith(p)
startsWith(s, p) == Len(s) >= Len(p) /\ SubSeq(s, 1, Len(p)) = p

NoPath == << >>
ApiPrefix == <<"/", "a", "p", "i">>
HomeUrl == <<"/">>

\* (originalUrl, url) pairs: a router mounted under /api, a page of a
\* router mounted under /adm, a path one character short of the prefix,
\* and a request object without originalUrl.
Requests ==
  { [originalUrl |-> <<"/", "a", "p", "i", "/", "d">>, url |-> <<"/", "d">>],
    [originalUrl |-> <<"/", "a", "d", "m", "/", "d">>, url |-> <<"/", "d">>],
    [originalUrl |-> <<"/", "a", "p">>, url |-> <<"/", "a", "p">>],
    [originalUrl |-> NoPath, url |-> <<"/", "a", "p", "i", "/", "d">>] }

\* ------------------------------------------------------------ configuration
DefaultLoginUrl == <<"h", "t", "t", "p", "s", ":", "/", "/", "d", "/", "l", "o", "g", "i", "n">>
CustomLoginUrl == <<"/", "l", "o", "g", "i", "n">>

DEFAULT_CONFIG ==
  [loginRedirectUrl |-> DefaultLoginUrl, usersCollection |-> "users", logger |-> "null"]

\* The options objects a host passes; dbGetter is always a function here
\* (createAuthMiddleware throws otherwise and no middleware exists).
OptionSets ==
  { [dbGetter |-> "function"],
    [dbGetter |-> "function", logger |-> "function"],
    [dbGetter |-> "function", loginRedirectUrl |-> CustomLoginUrl, logger |-> "function"] }

\* { ...DEFAULT_CONFIG, ...options }
createAuthMiddleware(options) ==
  [k \in (DOMAIN DEFAULT_CONFIG) \cup (DOMAIN options) |->
     IF k \in DOMAIN options THEN options[k] ELSE DEFAULT_CONFIG[k]]

\* createLogger: the lines the logger function receives for the given
\* levels; nothing when no logger function is configured.
createLogger(loggerFn, levels) ==
  IF loggerFn \notin {"function", "throws"}
  THEN << >>
  ELSE [i \in 1..(IF loggerFn = "throws" /\ Len(levels) > 0 THEN 1
                  ELSE Len(levels)) |->
          IF levels[i] = "error" THEN "[AUTH ERROR]" ELSE "[AUTH]"]

\* A host whose logger function throws when it is called.
FailingLoggerOptions == {[dbGetter |-> "function", logger |-> "throws"]}

\* ------------------------------------------------------------- users store
\* Session user identifiers: well-formed ObjectId strings and others.
WellFormedIds == {"h1", "h2"}
SessionUserIds == {"undefined", "''", "zz"} \cup WellFormedIds

\* ObjectId.isValid
IsValid(id) == id \in WellFormedIds
\* new ObjectId(id)
ObjectId(id) == <<"ObjectId", id>>

StoreKeys == {ObjectId(id) : id \in WellFormedIds}

IsAdminValues == {"true", "false", "undefined", "1"}

NoRecord == [kind |-> "null"]
UserRecord(id, flag) ==
  [kind |-> "object", _id |-> ObjectId(id), name |-> "n_" \o id,
   email |-> "e_" \o id, isAdmin |-> flag, password |-> "hash_" \o id]

\* The users collection at the start: h1 carries any privilege value, h2
\* was deleted (a session may still name it).
InitialStores ==
  { [k \in StoreKeys |->
       IF k = ObjectId("h1") THEN UserRecord("h1", f) ELSE NoRecord]
    : f \in IsAdminValues }

\* usersCollection.findOne({ _id: key })
findOne(users, key) == IF key \in DOMAIN users THEN users[key] ELSE NoRecord

\* ---------------------------------------------------------------- sessions
NoSession == [present |-> FALSE]
\* express-session objects carry save() and accept assignments; a session
\* object of another kind (no save, or frozen) is drawn for the anonymous
\* session, the one requireAuth writes to.
Sessions ==
  {NoSession}
  \cup [present : {TRUE}, userId : {"undefined"}, returnTo : {NoPath},
        hasSave : BOOLEAN, writable : BOOLEAN]
  \cup [present : {TRUE}, userId : {"''", "zz"} \cup WellFormedIds,
        returnTo : {NoPath}, hasSave : {TRUE}, writable : {TRUE}]

\* req.session && req.session.userId
HasUserId(sess) == sess.present /\ Truthy(sess.userId)

\* ---------------------------------------------------------- res.locals.user
Undefined == [kind |-> "undefined"]
Null == [kind |-> "null"]

\* A snapshot that is the record itself, the privilege flag defaulted.
Snapshot_wholeRecord(user) ==
  [user EXCEPT !.isAdmin = Or(user.isAdmin, "false")]

\* The object attachUser publishes for a user record.
Snapshot(user) ==
  [kind |-> "object", _id |-> user._id, name |-> user.name,
   email |-> user.email, isAdmin |-> Or(user.isAdmin, "false")]

\* ------------------------------------------------------ createSessionConfig
\* Option objects: a field that is missing is not in the object's domain.
Field(k, vs) == [x \in {y \in {k} : vs # {}} |-> CHOOSE v \in vs : TRUE]
MongoUris == {"", "mongodb://h/db"}
Secrets == {"", "s1", "s2"}
MaxAges == {0, 1000 * 60 * 60}
SessionOptionSets ==
  { Field("mongoUri", m) @@ Field("secret", t) @@ Field("isProduction", e)
      @@ Field("maxAge", a) :
    m \in {{}} \cup {{u} : u \in MongoUris},
    t \in {{}} \cup {{u} : u \in Secrets},
    e \in {{}, {TRUE}, {FALSE}},
    a \in {{}} \cup {{u} : u \in MaxAges} }

\* A check that refuses a missing field only: an empty string passes.
Unset_missingOnly(options, k) == k \notin DOMAIN options

\* !mongoUri, !secret: the field is missing or the empty string
Unset(options, k) == k \notin DOMAIN options \/ options[k] = ""

\* A default lifetime of one hour.
DefaultMaxAge_oneHour == 1000 * 60 * 60

\* maxAge = 1000 * 60 * 60 * 24
DefaultMaxAge == 1000 * 60 * 60 * 24

\* One database for every environment.
SESSION_DB_NAME_alwaysDatas(isProduction) == "datas"

\* isProduction ? 'datas' : 'devdatas'
SESSION_DB_NAME(isProduction) == IF isProduction THEN "datas" ELSE "devdatas"

ConfigError(message) == [kind |-> "error", message |-> message]

createSessionConfig(options) ==
  LET isProduction ==
        IF "isProduction" \in DOMAIN options THEN options.isProduction ELSE FALSE
      maxAge ==
        IF "maxAge" \in DOMAIN options THEN options.maxAge ELSE DefaultMaxAge
  IN IF Unset(options, "mongoUri")
     THEN ConfigError("dataapi-auth: mongoUri is required for session config")
     ELSE IF Unset(options, "secret")
     THEN ConfigError("dataapi-auth: secret is required for session config")
     ELSE [kind |-> "value",
           name |-> "data-api.sid",
           secret |-> options.secret,
           resave |-> FALSE,
           saveUninitialized |-> FALSE,
           databaseName |-> SESSION_DB_NAME(isProduction),
           collection |-> "mySessions",
           cookie |-> [maxAge |-> maxAge, httpOnly |-> TRUE,
                       sameSite |-> "lax", secure |-> isProduction]]

\* createSessionConfig was not called.
NotCalled == [kind |-> "none"]
NoOptions == << >>

\* -------------------------------------------------------------------- state
VARIABLES
  config,        \* the merged configuration the middleware closes over
  store,         \* the users collection
  storeChanges,  \* rewrites of the store so far
  req,           \* per request: originalUrl and url
  session,       \* per request: req.session
  locals,        \* per request: res.locals.user
  pc,            \* per request: where its pipeline stands
  gate,          \* per request: the middleware entered last
  ran,           \* per request: the middleware entered so far, in order
  nexts,         \* per request: next() calls of the current middleware
  response,      \* per request: the responses written, in order
  dbGets,        \* per request: dbGetter calls of the current middleware
  lookups,       \* per request: findOne calls of the current middleware
  saveErr,       \* per request: outcome of session.save ("none" before)
  fault,         \* per request: what the store did for the current middleware
  logOut,        \* per request: lines the current middleware handed to
                 \* the logger function
  sessionOptions, \* the options createSessionConfig is called with
  sessionParams   \* what the call gave: nothing yet, a value, an error

vars == <<config, store, storeChanges, req, session, locals, pc, gate, ran,
          nexts, response, dbGets, lookups, saveErr, fault, logOut,
          sessionOptions, sessionParams>>

\* What the store accessor and the collection handle can do on a call.
DbOutcomes == {"throws", "none", "nocollection", "ok"}
\* What attachUser saw of it: an exception it caught, no handle, a handle.
Seen(d) == IF d = "nocollection" THEN "throws" ELSE d

\* The logger's lines once a middleware that is entered (before = << >>)
\* or resumed (before = its lines so far) has logged at the given levels.
log(before, levels) == before \o createLogger(config.logger, levels)
\* log(...) is called without a guard: a logger function that throws makes
\* the first log call of a run throw.
LogThrows(levels) == config.logger = "throws" /\ levels # << >>

\* ----------------------------------------------------------------- initial
OffRequest == [originalUrl |-> NoPath, url |-> HomeUrl]

InitCommon ==
  /\ storeChanges = 0
  /\ locals = [r \in Reqs |-> Undefined]
  /\ gate = [r \in Reqs |-> "none"]
  /\ ran = [r \in Reqs |-> << >>]
  /\ nexts = [r \in Reqs |-> 0]
  /\ response = [r \in Reqs |-> << >>]
  /\ dbGets = [r \in Reqs |-> 0]
  /\ lookups = [r \in Reqs |-> 0]
  /\ saveErr = [r \in Reqs |-> "none"]
  /\ fault = [r \in Reqs |-> "unused"]
  /\ logOut = [r \in Reqs |-> << >>]

\* One request in flight; the second slot stays unused.
Init ==
  /\ InitCommon
  /\ sessionOptions = NoOptions /\ sessionParams = NotCalled
  /\ config \in {createAuthMiddleware(o) : o \in OptionSets}
  /\ store \in InitialStores
  /\ \E q \in Requests, s \in Sessions :
       /\ req = [r \in Reqs |-> IF r = 1 THEN q ELSE OffRequest]
       /\ session = [r \in Reqs |-> IF r = 1 THEN s ELSE NoSession]
  /\ pc = [r \in Reqs |-> IF r = 1 THEN "idle" ELSE "off"]

\* One request in flight, the configured logger absent, working or failing.
InitLog ==
  /\ InitCommon
  /\ sessionOptions = NoOptions /\ sessionParams = NotCalled
  /\ config \in {createAuthMiddleware(o) : o \in OptionSets \cup FailingLoggerOptions}
  /\ store \in InitialStores
  /\ \E q \in Requests, s \in Sessions :
       /\ req = [r \in Reqs |-> IF r = 1 THEN q ELSE OffRequest]
       /\ session = [r \in Reqs |-> IF r = 1 THEN s ELSE NoSession]
  /\ pc = [r \in Reqs |-> IF r = 1 THEN "idle" ELSE "off"]

\* Two requests in flight through the middleware of one call.  Either the
\* first asks for a page with the session of user h1 and the second is
\* anonymous or carries the session of user h2; or both ask for the same path, the first
\* with a session that has no user identifier, the second with no session
\* at all (the session layer was not applied).
TwoSessions ==
  {s \in Sessions :
     s.present /\ s.hasSave /\ s.writable /\ s.userId \in {"undefined", "h1", "h2"}}
OtherSessions == {s \in TwoSessions : s.userId # "h1"}
TwoRequests == {q \in Requests : q.originalUrl # NoPath /\ q.originalUrl # q.url}
AnonymousSessions == {s \in Sessions : s.present /\ ~HasUserId(s)}

\* Both users are on record, the first an administrator.
TwoUsers ==
  [k \in StoreKeys |->
     IF k = ObjectId("h1") THEN UserRecord("h1", "true")
     ELSE UserRecord("h2", "false")]

InitTwo ==
  /\ InitCommon
  /\ sessionOptions = NoOptions /\ sessionParams = NotCalled
  /\ store = TwoUsers
  /\ \/ /\ config = createAuthMiddleware(
                       CHOOSE o \in OptionSets : DOMAIN o = {"dbGetter"})
        /\ \E q2 \in TwoRequests, s2 \in OtherSessions :
             /\ req = [r \in Reqs |->
                         IF r = 1
                         THEN CHOOSE q \in TwoRequests :
                                ~startsWith(q.originalUrl, ApiPrefix)
                         ELSE q2]
             /\ session = [r \in Reqs |->
                             IF r = 1 THEN CHOOSE s \in TwoSessions : s.userId = "h1"
                             ELSE s2]
     \/ /\ config \in {createAuthMiddleware(o) :
                         o \in {p \in OptionSets : "logger" \in DOMAIN p}}
        /\ \E q \in Requests, s1 \in AnonymousSessions :
             /\ req = [r \in Reqs |-> q]
             /\ session = [r \in Reqs |-> IF r = 1 THEN s1 ELSE NoSession]
  /\ pc = [r \in Reqs |-> "idle"]

\* The host is about to compute its session parameters; no request is
\* served yet.
InitConfig ==
  /\ InitCommon
  /\ sessionOptions \in SessionOptionSets
  /\ sessionParams = NotCalled
  /\ config = createAuthMiddleware(CHOOSE o \in OptionSets : DOMAIN o = {"dbGetter"})
  /\ store = TwoUsers
  /\ req = [r \in Reqs |-> OffRequest]
  /\ session = [r \in Reqs |-> NoSession]
  /\ pc = [r \in Reqs |-> "off"]

\* ----------------------------------------------------------------- pipeline
\* Where a request stands once a middleware has run as far as it can:
\* awaiting findOne, waiting for session.save, an exception escaped, or
\* returned having called next() n times and written responses or not.
After(then, n, responded) ==
  CASE then = "await" -> "lookup"
    [] then = "save" -> "saving"
    [] then = "throw" -> "thrown"
    [] OTHER -> IF n > 0 THEN "idle"
                ELSE IF responded THEN "responded" ELSE "stalled"

\* Routes are followed for MaxGates middleware when a request is served
\* alone, and for MaxGatesBoth middleware in all when two are in flight.
RouteOpen(r) ==
  IF \A q \in Reqs : pc[q] # "off"
  THEN Len(ran[1]) + Len(ran[2]) < MaxGatesBoth
  ELSE Len(ran[r]) < MaxGates

\* Express enters the next middleware of the route.
Enter(r, g) ==
  /\ pc[r] = "idle"
  /\ RouteOpen(r)
  /\ gate' = [gate EXCEPT ![r] = g]
  /\ ran' = [ran EXCEPT ![r] = Append(@, g)]

\* --------------------------------------------------------------- attachUser
\* The ways attachUser reaches next() without publishing a user, each with
\* the level of the line it logs on the way.
\* lines 124-128: no session or no userId
onNoSession == [levels |-> <<"info">>, nexts |-> 1, then |-> "return"]
\* A bare return where the database is missing: next() is not called.
onNoDb_returnsOnly == [levels |-> <<"error">>, nexts |-> 0, then |-> "return"]

\* lines 92-95: dbGetter returned nothing
onNoDb == [levels |-> <<"error">>, nexts |-> 1, then |-> "return"]
\* The store's exception is not caught: it escapes attachUser.
onError_uncaught == [levels |-> << >>, nexts |-> 0, then |-> "throw"]

\* lines 121-128: dbGetter, db.collection or findOne threw
onError == [levels |-> <<"error">>, nexts |-> 1, then |-> "return"]
\* lines 99-102: ObjectId.isValid refused the userId
onInvalidId == [levels |-> <<"error">>, nexts |-> 1, then |-> "return"]
\* lines 118-120 and 128: findOne returned null
onNotFound == [levels |-> <<"error">>, nexts |-> 1, then |-> "return"]

\* The synchronous part of attachUser (lines 80-104): d is what the store
\* accessor and the collection handle do.
attachUserSync(sess, d) ==
  IF HasUserId(sess)
  THEN CASE d = "throws" ->
              [onError EXCEPT !.levels = <<"info", "info">> \o @]
                @@ [dbGets |-> 1, lookups |-> 0]
         [] d = "none" ->
              [onNoDb EXCEPT !.levels = <<"info", "info">> \o @]
                @@ [dbGets |-> 1, lookups |-> 0]
         [] d = "nocollection" ->
              [onError EXCEPT !.levels = <<"info", "info">> \o @]
                @@ [dbGets |-> 1, lookups |-> 0]
         [] OTHER ->
              IF ~IsValid(sess.userId)
              THEN [onInvalidId EXCEPT !.levels = <<"info", "info">> \o @]
                     @@ [dbGets |-> 1, lookups |-> 0]
              ELSE [levels |-> <<"info", "info">>, nexts |-> 0,
                    then |-> "await", dbGets |-> 1, lookups |-> 1]
  ELSE [onNoSession EXCEPT !.levels = <<"info">> \o @]
         @@ [dbGets |-> 0, lookups |-> 0]

\* next() passed on to attachUser and called again after the await.
optionalAuthNext_calledAgain(n) == n + 1

\* The continuation optionalAuth hands to attachUser (lines 209-212): the
\* pipeline's next() is called once for each call of the continuation.
optionalAuthNext(n) == n

\* next() calls of the pipeline for n calls of attachUser's continuation.
Continue(g, n) == IF g = "optionalAuth" THEN optionalAuthNext(n) ELSE n

\* A resolver that leaves res.locals.user as it finds it.
resetUser_keepsUser(user) == user

\* res.locals.user = null (line 84)
resetUser(user) == Null

\* lines 83, 144, 206: the first log call of a middleware threw, before
\* anything else was done
onLogThrow == [levels |-> <<"info">>, nexts |-> 0, then |-> "throw"]

\* attachUser up to its await, entered directly (pre = << >>) or through
\* optionalAuth (pre = the line optionalAuth logs first).
attachUserEnter(r, g, pre) ==
  /\ Enter(r, g)
  /\ \E d \in DbOutcomes :
       LET run == attachUserSync(session[r], d)
           threw == LogThrows(pre \o run.levels)
           a == IF threw THEN onLogThrow @@ [dbGets |-> 0, lookups |-> 0]
                ELSE run
           n == Continue(g, a.nexts)
       IN /\ locals' = IF threw THEN locals
                    ELSE [locals EXCEPT ![r] = resetUser(@)]
          /\ logOut' = [logOut EXCEPT ![r] = log(<< >>, pre \o a.levels)]
          /\ dbGets' = [dbGets EXCEPT ![r] = a.dbGets]
          /\ lookups' = [lookups EXCEPT ![r] = a.lookups]
          /\ fault' = [fault EXCEPT ![r] = IF a.dbGets > 0 THEN Seen(d) ELSE "unused"]
          /\ nexts' = [nexts EXCEPT ![r] = n]
          /\ pc' = [pc EXCEPT ![r] = After(a.then, n, FALSE)]
  /\ UNCHANGED <<sessionOptions, sessionParams, config, store, storeChanges, req, session, response, saveErr>>

attachUser(r) == attachUserEnter(r, "attachUser", << >>)

\* A resolver that forgets the request's user when the record is missing:
\* res.locals.user is undefined again, not null.
attachUserResume_notFoundUndefined(o, user) ==
  IF o = "rejected"
  THEN onError @@ [user |-> Null]
  ELSE IF user.kind = "object"
       THEN [levels |-> <<"info">>, user |-> Snapshot(user), nexts |-> 1,
             then |-> "return"]
       ELSE onNotFound @@ [user |-> Undefined]

\* What attachUser does when findOne settles (lines 104-128): o is
\* "resolved" or "rejected", user the record the store returned.
attachUserResume(o, user) ==
  IF o = "rejected"
  THEN onError @@ [user |-> Null]
  ELSE IF user.kind = "object"
       THEN [levels |-> <<"info">>, user |-> Snapshot(user), nexts |-> 1,
             then |-> "return"]
       ELSE onNotFound @@ [user |-> Null]

\* A key kept in one place for the whole middleware instead of the
\* request's own: the key of the first request in flight that has one.
LookupKey_sharedByRequests(r) ==
  LET q == CHOOSE q \in Reqs :
             /\ pc[q] # "off" /\ HasUserId(session[q]) /\ IsValid(session[q].userId)
             /\ \A p \in Reqs :
                  (pc[p] # "off" /\ HasUserId(session[p]) /\ IsValid(session[p].userId))
                    => q <= p
  IN ObjectId(session[q].userId)

\* { _id: new ObjectId(req.session.userId) } (line 105): the key of the
\* lookup is taken from the request's own session.
LookupKey(r) == ObjectId(session[r].userId)

\* findOne settles and attachUser runs to its end.
lookupReturn(r) ==
  /\ pc[r] = "lookup"
  /\ \E o \in {"resolved", "rejected"} :
       LET run == attachUserResume(o, findOne(store, LookupKey(r)))
           \* lines 109, 119, 122: a throwing log call leaves the try block
           \* before line 112 and throws again in the catch block
           a == IF LogThrows(run.levels)
                THEN [onLogThrow EXCEPT !.levels = run.levels] @@ [user |-> Null]
                ELSE run
           n == nexts[r] + Continue(gate[r], a.nexts)
       IN /\ locals' = [locals EXCEPT ![r] = a.user]
          /\ logOut' = [logOut EXCEPT ![r] = log(logOut[r], a.levels)]
          /\ fault' = [fault EXCEPT ![r] = o]
          /\ nexts' = [nexts EXCEPT ![r] = n]
          /\ pc' = [pc EXCEPT ![r] = After(a.then, n, FALSE)]
  /\ UNCHANGED <<sessionOptions, sessionParams, config, store, storeChanges, req, session, gate, ran,
                 response, dbGets, lookups, saveErr>>

\* --------------------------------------------------------------- responses
Json(code, message) ==
  [kind |-> "json", status |-> code,
   body |-> [status |-> "error", message |-> message]]
Redirect(location) == [kind |-> "redirect", location |-> location]

\* req.originalUrl && req.originalUrl.startsWith('/api')
isApiRequest(rq) ==
  rq.originalUrl # NoPath /\ startsWith(rq.originalUrl, ApiPrefix)

\* The path as the router sees it, without its mount point.
RequestedPath_urlOnly(rq) == rq.url

\* req.originalUrl || req.url
RequestedPath(rq) == IF rq.originalUrl # NoPath THEN rq.originalUrl ELSE rq.url

\* Carry out what the synchronous part of a gate just entered decided:
\* a.levels are logged, a.respond is written to the response, next() is called a.nexts
\* times, and a.then = "save" leaves the gate waiting for session.save.
Finish(r, a) ==
  /\ logOut' = [logOut EXCEPT ![r] = log(<< >>, a.levels)]
  /\ response' = [response EXCEPT ![r] = @ \o a.respond]
  /\ nexts' = [nexts EXCEPT ![r] = a.nexts]
  /\ pc' = [pc EXCEPT ![r] = After(a.then, a.nexts, a.respond # << >>)]

\* -------------------------------------------------------------- requireAuth
\* !req.session
SessionMissing(sess) == ~sess.present
\* A check for a missing field only: an empty userId would pass.
NoUserId_undefinedOnly(sess) == sess.userId = "undefined"

\* !req.session.userId
NoUserId(sess) == ~Truthy(sess.userId)

\* requireAuth clearing the return path of a caller who is logged in.
onAuthenticated_resetsReturnTo(sess) ==
  [levels |-> <<"info">>, session |-> [sess EXCEPT !.returnTo = HomeUrl],
   nexts |-> 1, respond |-> << >>, then |-> "return"]

\* lines 192-194: the session carries a userId
onAuthenticated(sess) ==
  [levels |-> <<"info">>, session |-> sess, nexts |-> 1,
   respond |-> << >>, then |-> "return"]

\* requireAuth recording the return path before it classifies the caller:
\* a refused /api request leaves its path on the session too.
requireAuthSync_recordsThenClassifies(cfg, rq, sess) ==
  IF SessionMissing(sess)
  THEN [levels |-> <<"info", "error">>, session |-> sess, nexts |-> 0,
        respond |-> IF isApiRequest(rq)
                    THEN <<Json(401, "Unauthorized")>>
                    ELSE <<Redirect(cfg.loginRedirectUrl)>>,
        then |-> "return"]
  ELSE IF NoUserId(sess)
  THEN IF isApiRequest(rq)
       THEN [levels |-> <<"info", "info">>,
             session |-> IF sess.writable
                         THEN [sess EXCEPT !.returnTo = RequestedPath(rq)]
                         ELSE sess,
             nexts |-> 0,
             respond |-> <<Json(401, "Unauthorized")>>, then |-> "return"]
       ELSE [levels |-> IF sess.writable THEN <<"info", "info">>
                        ELSE <<"info", "info", "error">>,
             session |-> IF sess.writable
                         THEN [sess EXCEPT !.returnTo = RequestedPath(rq)]
                         ELSE sess,
             nexts |-> 0,
             respond |-> IF sess.hasSave THEN << >>
                         ELSE <<Redirect(cfg.loginRedirectUrl)>>,
             then |-> IF sess.hasSave THEN "save" ELSE "return"]
  ELSE [levels |-> <<"info">>, session |-> sess, nexts |-> 1,
        respond |-> << >>, then |-> "return"]

\* requireAuth answering 401 whenever the session layer is missing, the
\* caller's path not looked at.
requireAuthSync_noSessionIs401(cfg, rq, sess) ==
  IF SessionMissing(sess)
  THEN [levels |-> <<"info", "error">>, session |-> sess, nexts |-> 0,
        respond |-> <<Json(401, "Unauthorized")>>, then |-> "return"]
  ELSE IF NoUserId(sess)
  THEN IF isApiRequest(rq)
       THEN [levels |-> <<"info", "info">>, session |-> sess, nexts |-> 0,
             respond |-> <<Json(401, "Unauthorized")>>, then |-> "return"]
       ELSE [levels |-> IF sess.writable THEN <<"info", "info">>
                        ELSE <<"info", "info", "error">>,
             session |-> IF sess.writable
                         THEN [sess EXCEPT !.returnTo = RequestedPath(rq)]
                         ELSE sess,
             nexts |-> 0,
             respond |-> IF sess.hasSave THEN << >>
                         ELSE <<Redirect(cfg.loginRedirectUrl)>>,
             then |-> IF sess.hasSave THEN "save" ELSE "return"]
  ELSE [levels |-> <<"info">>, session |-> sess, nexts |-> 1,
        respond |-> << >>, then |-> "return"]

\* requireAuth up to its return (lines 140-195).
requireAuthSync(cfg, rq, sess) ==
  IF SessionMissing(sess)
  THEN [levels |-> <<"info", "error">>, session |-> sess, nexts |-> 0,
        respond |-> IF isApiRequest(rq)
                    THEN <<Json(401, "Unauthorized")>>
                    ELSE <<Redirect(cfg.loginRedirectUrl)>>,
        then |-> "return"]
  ELSE IF NoUserId(sess)
  THEN IF isApiRequest(rq)
       THEN [levels |-> <<"info", "info">>, session |-> sess, nexts |-> 0,
             respond |-> <<Json(401, "Unauthorized")>>, then |-> "return"]
       ELSE [levels |-> IF sess.writable THEN <<"info", "info">>
                        ELSE <<"info", "info", "error">>,
             session |-> IF sess.writable
                         THEN [sess EXCEPT !.returnTo = RequestedPath(rq)]
                         ELSE sess,
             nexts |-> 0,
             respond |-> IF sess.hasSave THEN << >>
                         ELSE <<Redirect(cfg.loginRedirectUrl)>>,
             then |-> IF sess.hasSave THEN "save" ELSE "return"]
  ELSE onAuthenticated(sess)

requireAuth(r) ==
  /\ Enter(r, "requireAuth")
  /\ LET run == requireAuthSync(config, req[r], session[r])
         a == IF LogThrows(run.levels)
              THEN onLogThrow @@ [session |-> session[r], respond |-> << >>]
              ELSE run
     IN /\ Finish(r, a)
        /\ session' = [session EXCEPT ![r] = a.session]
  /\ dbGets' = [dbGets EXCEPT ![r] = 0]
  /\ lookups' = [lookups EXCEPT ![r] = 0]
  /\ fault' = [fault EXCEPT ![r] = "unused"]
  /\ UNCHANGED <<sessionOptions, sessionParams, config, store, storeChanges, req, locals, saveErr>>

\* A callback that gives up when the save failed.
saveDone_failedSaveStops(cfg, err) ==
  [levels |-> IF err THEN <<"error">> ELSE << >>,
   respond |-> IF err THEN << >> ELSE <<Redirect(cfg.loginRedirectUrl)>>]

\* The callback requireAuth hands to session.save (lines 180-185).
saveDone(cfg, err) ==
  [levels |-> IF err THEN <<"error">> ELSE << >>,
   respond |-> <<Redirect(cfg.loginRedirectUrl)>>]

\* session.save calls back, with or without an error.
saveCallback(r) ==
  /\ pc[r] = "saving"
  /\ \E err \in BOOLEAN :
       LET run == saveDone(config, err)
           \* line 182: a throwing log call leaves the callback before the
           \* redirect of line 184
           threw == LogThrows(run.levels)
           a == IF threw THEN [run EXCEPT !.respond = << >>] ELSE run
       IN /\ logOut' = [logOut EXCEPT ![r] = log(logOut[r], a.levels)]
          /\ response' = [response EXCEPT ![r] = @ \o a.respond]
          /\ saveErr' = [saveErr EXCEPT ![r] = IF err THEN "failed" ELSE "ok"]
          /\ pc' = [pc EXCEPT ![r] =
                     After(IF threw THEN "throw" ELSE "return", 0,
                           a.respond # << >>)]
  /\ UNCHANGED <<sessionOptions, sessionParams, config, store, storeChanges, req, session, locals, gate,
                 ran, nexts, dbGets, lookups, fault>>

\* ------------------------------------------------------------- optionalAuth
\* optionalAuth logs one line and awaits attachUser with a continuation
\* that calls next() (lines 205-213).
optionalAuth(r) == attachUserEnter(r, "optionalAuth", <<"info">>)

\* ------------------------------------------------------------- requireAdmin
\* A check that only refuses a user published without the flag: a request
\* nobody resolved passes.
IsAdminUser_unresolvedPasses(user) ==
  user.kind # "object" \/ Truthy(user.isAdmin)

\* res.locals.user && res.locals.user.isAdmin
IsAdminUser(user) == user.kind = "object" /\ Truthy(user.isAdmin)

\* requireAdmin sending every refused caller to the home page.
requireAdminSync_alwaysRedirects(rq, user) ==
  IF user.kind = "object" /\ Truthy(user.isAdmin)
  THEN [levels |-> << >>, nexts |-> 1, respond |-> << >>, then |-> "return"]
  ELSE [levels |-> << >>, nexts |-> 0, respond |-> <<Redirect(HomeUrl)>>,
        then |-> "return"]

\* requireAdmin (lines 224-241).
requireAdminSync(rq, user) ==
  IF IsAdminUser(user)
  THEN [levels |-> << >>, nexts |-> 1, respond |-> << >>, then |-> "return"]
  ELSE [levels |-> << >>, nexts |-> 0,
        respond |-> IF isApiRequest(rq)
                    THEN <<Json(403, "Forbidden: Admin access required")>>
                    ELSE <<Redirect(HomeUrl)>>,
        then |-> "return"]

requireAdmin(r) ==
  /\ Enter(r, "requireAdmin")
  /\ Finish(r, requireAdminSync(req[r], locals[r]))
  /\ dbGets' = [dbGets EXCEPT ![r] = 0]
  /\ lookups' = [lookups EXCEPT ![r] = 0]
  /\ fault' = [fault EXCEPT ![r] = "unused"]
  /\ UNCHANGED <<sessionOptions, sessionParams, config, store, storeChanges, req, session, locals, saveErr>>

\* -------------------------------------------------------------- environment
\* The route's handler runs once the last middleware of the chain has
\* called next().
handler(r) ==
  /\ pc[r] = "idle"
  /\ ran[r] # << >>
  /\ pc' = [pc EXCEPT ![r] = "handler"]
  /\ UNCHANGED <<sessionOptions, sessionParams, config, store, storeChanges, req, session, locals, gate,
                 ran, nexts, response, dbGets, lookups, saveErr, fault,
                 logOut>>

\* The identity service deletes a user, or writes one that carries the
\* privilege flag, while some request can still look a user up.
storeChange ==
  /\ storeChanges < MaxStoreChanges
  /\ \E r \in Reqs : pc[r] = "lookup" \/ (pc[r] = "idle" /\ RouteOpen(r))
  /\ \E id \in WellFormedIds :
       \E rec \in {NoRecord, UserRecord(id, "true")} :
         /\ store[ObjectId(id)] # rec
         /\ store' = [store EXCEPT ![ObjectId(id)] = rec]
  /\ storeChanges' = storeChanges + 1
  /\ UNCHANGED <<sessionOptions, sessionParams, config, req, session, locals, pc, gate, ran, nexts,
                 response, dbGets, lookups, saveErr, fault, logOut>>

Next ==
  \/ \E r \in Reqs : attachUser(r)
  \/ \E r \in Reqs : lookupReturn(r)
  \/ \E r \in Reqs : requireAuth(r)
  \/ \E r \in Reqs : saveCallback(r)
  \/ \E r \in Reqs : optionalAuth(r)
  \/ \E r \in Reqs : requireAdmin(r)
  \/ \E r \in Reqs : handler(r)
  \/ storeChange

Spec == Init /\ [][Next]_vars

\* The host calls createSessionConfig(options) (lines 272-307).
createSessionConfigCall ==
  /\ sessionParams = NotCalled
  /\ sessionParams' = createSessionConfig(sessionOptions)
  /\ UNCHANGED <<sessionOptions, config, store, storeChanges, req, session,
                 locals, pc, gate, ran, nexts, response, dbGets, lookups,
                 saveErr, fault, logOut>>

NextConfig == createSessionConfigCall

SpecConfig == InitConfig /\ [][NextConfig]_vars

\* The same middleware with a logger function that may throw.
SpecLog == InitLog /\ [][Next]_vars

\* The same middleware serving two requests at once.
SpecTwo == InitTwo /\ [][Next]_vars

\* The same program where every pending findOne settles and every pending
\* session.save calls back: the driver and the session store answer or
\* time out, they do not stay silent for ever.
SpecFair ==
  /\ Spec
  /\ \A r \in Reqs : WF_vars(lookupReturn(r))
  /\ \A r \in Reqs : WF_vars(saveCallback(r))

\* ================================================================== claims
Absent(user) == user.kind # "object"
Live == {r \in Reqs : pc[r] # "off"}
Entered(r, g) == \E i \in 1..Len(ran[r]) : ran[r][i] = g
\* The session's user identifier names no record of the unchanged store.
Stale(r) ==
  /\ HasUserId(session[r])
  /\ IsValid(session[r].userId)
  /\ storeChanges = 0
  /\ findOne(store, ObjectId(session[r].userId)) = NoRecord

\* C1: a request without a session, or whose session has no user
\* identifier, never has an identity published, and once requireAuth has
\* been entered it has not called next(), the request is waiting for
\* session.save or has been answered, and its handler is never reached.
C1_NoIdentityRejected ==
  \A r \in Live :
    ~HasUserId(session[r]) =>
      /\ Absent(locals[r])
      /\ Entered(r, "requireAuth") =>
           /\ gate[r] = "requireAuth"
           /\ nexts[r] = 0
           /\ pc[r] \in {"saving", "responded"}
           /\ pc[r] = "responded" => Len(response[r]) = 1

\* C1 witness: attachUser then requireAuth ran on a session with an empty
\* user identifier, and the request was answered.
C1_Witness ==
  \E r \in Live :
    /\ session[r].present /\ session[r].userId = "''"
    /\ ran[r] = <<"attachUser", "requireAuth">>
    /\ pc[r] = "responded"
    /\ locals[r] = Null

\* C2 (the claim as stated): for a session whose user identifier names no
\* user record, no identity is published and requireAuth does not call
\* next(), so the handler is not reached through attachUser, requireAuth.
C2_StaleSessionRejected ==
  \A r \in Live :
    (Stale(r) /\ Entered(r, "attachUser") /\ pc[r] # "lookup") =>
      /\ Absent(locals[r])
      /\ Entered(r, "requireAuth") => (nexts[r] = 0 /\ pc[r] # "handler")

\* C3: whenever the store accessor, the collection handle or the lookup
\* failed inside attachUser, the identity is null, next() was called once,
\* no exception escaped and no response was written.
StoreFaults == {"throws", "none", "rejected"}
C3_StoreErrorIsNoIdentity ==
  \A r \in Live :
    (gate[r] \in {"attachUser", "optionalAuth"} /\ fault[r] \in StoreFaults) =>
      /\ locals[r] = Null
      /\ nexts[r] = 1
      /\ pc[r] \in {"idle", "handler"}
      /\ response[r] = << >>

\* C3 witness: the lookup of an existing user was rejected by the store.
C3_Witness ==
  \E r \in Live :
    /\ gate[r] = "attachUser" /\ fault[r] = "rejected"
    /\ findOne(store, ObjectId(session[r].userId)) # NoRecord
    /\ pc[r] = "handler"

\* C4 (the claim as stated): requireAdmin has called next() exactly when
\* an identity is published whose privilege flag is the boolean true.
C4_AdminIffExactlyTrue ==
  \A r \in Live :
    (gate[r] = "requireAdmin") =>
      (nexts[r] > 0 <=> (locals[r].kind = "object" /\ locals[r].isAdmin = "true"))

\* The route so far is requireAuth then requireAdmin, after any resolvers.
AuthThenAdmin(route) ==
  LET n == Len(route)
  IN /\ n > 1
     /\ route[n] = "requireAdmin" /\ route[n - 1] = "requireAuth"
     /\ \A j \in 1..(n - 2) : route[j] \in {"attachUser", "optionalAuth"}

\* C5: on a route requireAuth, requireAdmin (with or without resolvers
\* before), requireAdmin continues only for a request whose session user
\* identifier is well formed and whose published identity is the snapshot
\* of a user record stored under that identifier with a truthy privilege
\* flag (the record of the store itself while the store is unchanged);
\* every other request is answered by one of the two gates and its
\* handler is never reached.
C5_NoGrantOnBrokenChain ==
  \A r \in Live :
    AuthThenAdmin(ran[r]) =>
      \/ /\ pc[r] = "responded"
         /\ Len(response[r]) = 1
      \/ /\ pc[r] \in {"idle", "handler"}
         /\ HasUserId(session[r]) /\ IsValid(session[r].userId)
         /\ \E f \in IsAdminValues :
              /\ Truthy(f)
              /\ locals[r] = Snapshot(UserRecord(session[r].userId, f))
         /\ storeChanges = 0 =>
              /\ store[ObjectId(session[r].userId)].kind = "object"
              /\ locals[r] = Snapshot(store[ObjectId(session[r].userId)])

\* C5 witness: the resolver was never run and requireAdmin answered.
C5_Witness ==
  \E r \in Live :
    /\ ran[r] = <<"requireAuth", "requireAdmin">>
    /\ session[r].present /\ session[r].userId = "h1"
    /\ store[ObjectId("h1")].kind = "object" /\ store[ObjectId("h1")].isAdmin = "true"
    /\ pc[r] = "responded"

\* The request's original path lies under /api.
UnderApi(rq) ==
  /\ Len(rq.originalUrl) >= Len(ApiPrefix)
  /\ \A i \in 1..Len(ApiPrefix) : rq.originalUrl[i] = ApiPrefix[i]
\* The path the caller asked for: originalUrl, or url when the request
\* object carries no originalUrl.
AskedPath(rq) == IF Len(rq.originalUrl) > 0 THEN rq.originalUrl ELSE rq.url
Unauthorized401 ==
  [kind |-> "json", status |-> 401,
   body |-> [status |-> "error", message |-> "Unauthorized"]]
LoginRedirect == [kind |-> "redirect", location |-> config.loginRedirectUrl]

\* C6 (the claim as stated): a request requireAuth has refused and
\* answered got, under /api, the 401 body and nothing else, and otherwise
\* the redirect to the login URL with the asked path recorded as its
\* session's returnTo.
C6_RejectionShape_AsStated ==
  \A r \in Live :
    (gate[r] = "requireAuth" /\ ~HasUserId(session[r]) /\ pc[r] = "responded") =>
      IF UnderApi(req[r])
      THEN response[r] = <<Unauthorized401>>
      ELSE /\ response[r] = <<LoginRedirect>>
           /\ session[r].present
           /\ session[r].returnTo = AskedPath(req[r])

\* C6 (amended): a request requireAuth refuses gets, under /api, exactly
\* the 401 body and its session is left alone; otherwise it gets exactly
\* the redirect to the configured login URL, at once or after
\* session.save, and the asked path is the session's returnTo from the
\* moment requireAuth returns if the request has a session that accepts
\* the assignment; a session that refuses it keeps its returnTo.
C6_RejectionShape ==
  \A r \in Live :
    (gate[r] = "requireAuth" /\ ~HasUserId(session[r])) =>
      IF UnderApi(req[r])
      THEN /\ pc[r] = "responded"
           /\ response[r] = <<Unauthorized401>>
           /\ session[r].present => session[r].returnTo = NoPath
      ELSE /\ pc[r] \in {"saving", "responded"}
           /\ pc[r] = "saving" => response[r] = << >>
           /\ pc[r] = "responded" => response[r] = <<LoginRedirect>>
           /\ session[r].present =>
                session[r].returnTo =
                  IF session[r].writable THEN AskedPath(req[r]) ELSE NoPath

\* C6 witness: an interactive request of a mounted router was redirected
\* with its original path recorded.
C6_Witness ==
  \E r \in Live :
    /\ gate[r] = "requireAuth" /\ pc[r] = "responded"
    /\ ~UnderApi(req[r]) /\ req[r].originalUrl # req[r].url
    /\ session[r].present /\ session[r].returnTo = req[r].originalUrl
    /\ Len(req[r].originalUrl) > 0
    /\ response[r] = <<LoginRedirect>>

\* The request is one requireAuth refuses as an interactive caller whose
\* session has a save operation.
SavingCase(r) ==
  /\ gate[r] = "requireAuth"
  /\ session[r].present /\ ~Truthy(session[r].userId)
  /\ ~UnderApi(req[r])
  /\ session[r].hasSave

\* C7: in that case nothing is written while session.save is pending, the
\* request is answered only once the callback has fired, and after the
\* callback, whether it reported an error or not, the response is the
\* login redirect, once.
C7_RedirectAfterSave ==
  \A r \in Live :
    /\ SavingCase(r) =>
         /\ pc[r] \in {"saving", "responded"}
         /\ pc[r] = "saving" => (response[r] = << >> /\ saveErr[r] = "none")
         /\ pc[r] = "responded" =>
              (response[r] = <<LoginRedirect>> /\ saveErr[r] \in {"ok", "failed"})
    /\ saveErr[r] # "none" => SavingCase(r)

\* C7 witness: the save failed and the redirect was issued.
C7_Witness ==
  \E r \in Live :
    SavingCase(r) /\ saveErr[r] = "failed" /\ response[r] = <<LoginRedirect>>

\* C8: whenever requireAdmin has not called next(), the request is
\* answered with exactly one response: under /api the 403 body, otherwise
\* a redirect to "/", which is not the login URL.
C8_AdminRejectionShape ==
  \A r \in Live :
    (gate[r] = "requireAdmin" /\ nexts[r] = 0) =>
      /\ pc[r] = "responded"
      /\ Len(response[r]) = 1
      /\ IF UnderApi(req[r])
         THEN /\ response[r][1].kind = "json"
              /\ response[r][1].status = 403
              /\ response[r][1].body.status = "error"
              /\ DOMAIN response[r][1].body = {"status", "message"}
         ELSE /\ response[r][1] = [kind |-> "redirect", location |-> <<"/">>]
              /\ response[r][1] # LoginRedirect

\* C8 witness: an ordinary user was refused on a path under /api.
C8_Witness ==
  \E r \in Live :
    /\ gate[r] = "requireAdmin" /\ nexts[r] = 0
    /\ UnderApi(req[r])
    /\ locals[r].kind = "object"
    /\ response[r] = <<[kind |-> "json", status |-> 403,
                        body |-> [status |-> "error",
                                  message |-> "Forbidden: Admin access required"]]>>

\* C9: attachUser writes no response, has not called next() while its
\* lookup is pending, and has called it exactly once when it is over.
C9_AttachUserAlwaysContinues ==
  \A r \in Live :
    gate[r] = "attachUser" =>
      /\ response[r] = << >>
      /\ pc[r] \in {"lookup", "idle", "handler"}
      /\ nexts[r] = IF pc[r] = "lookup" THEN 0 ELSE 1

\* C9 witness: the store accessor returned no handle and attachUser went on.
C9_Witness ==
  \E r \in Live :
    gate[r] = "attachUser" /\ fault[r] = "none" /\ nexts[r] = 1 /\ pc[r] = "idle"

\* C10: optionalAuth writes no response, has not called next() while the
\* resolver's lookup is pending, and has called it exactly once when the
\* resolver is over.
C10_OptionalAuthNeverRejects ==
  \A r \in Live :
    gate[r] = "optionalAuth" =>
      /\ response[r] = << >>
      /\ pc[r] \in {"lookup", "idle", "handler"}
      /\ nexts[r] = IF pc[r] = "lookup" THEN 0 ELSE 1

\* C10 witness: optionalAuth resolved a user and the handler was reached.
C10_Witness ==
  \E r \in Live :
    /\ ran[r] = <<"optionalAuth">>
    /\ locals[r].kind = "object"
    /\ pc[r] = "handler"

\* The middleware entered last is still waiting for the store or the save.
Pending(r) == pc[r] \in {"lookup", "saving"}
\* It is over: control went to next(), or a response was written.
Over(r) == pc[r] \in {"idle", "handler", "responded"}

\* C11: a middleware that is over has either called next() once and written
\* nothing, or written one response and not called next(); while it waits
\* it has done neither; and the waits come to an end for good, the findOne
\* and the session.save being answered, so every wait ends in one of these
\* two outcomes.
C11_OneOutcome ==
  /\ [](\A r \in Live :
          /\ Pending(r) \/ Over(r)
          /\ Pending(r) => (nexts[r] = 0 /\ response[r] = << >>)
          /\ pc[r] \in {"idle", "handler"} /\ gate[r] # "none" =>
               (nexts[r] = 1 /\ response[r] = << >>)
          /\ pc[r] = "responded" => (nexts[r] = 0 /\ Len(response[r]) = 1))
  /\ <>[](\A r \in Reqs : ~Pending(r))

\* C11 witness: requireAuth's deferred redirect was issued after the save.
C11_Witness ==
  \E r \in Live :
    gate[r] = "requireAuth" /\ saveErr[r] = "ok" /\ pc[r] = "responded"

\* The fields a published identity may carry (kind tells an object from null
\* and undefined).
AllowedFields == {"kind", "_id", "name", "email", "isAdmin"}

\* C12: a published identity carries the fields _id, name, email and isAdmin
\* and no other field of the record (no password hash); when the lookup
\* publishes it, _id, name and email are the record's, and isAdmin is the
\* record's value, or false when the record's value is absent or falsy.
C12_SnapshotAllowList ==
  /\ [](\A r \in Live :
          locals[r].kind = "object" => DOMAIN locals[r] = AllowedFields)
  /\ [][\A r \in Live :
          pc[r] = "lookup" /\ locals'[r].kind = "object" =>
            LET user == findOne(store, ObjectId(session[r].userId))
            IN /\ user.kind = "object"
               /\ locals'[r]._id = user._id
               /\ locals'[r].name = user.name
               /\ locals'[r].email = user.email
               /\ locals'[r].isAdmin =
                    (IF user.isAdmin \in Falsy THEN "false" ELSE user.isAdmin)]_vars

\* C12 witness: a record without the privilege field was published, as a
\* non-administrator.
C12_Witness ==
  \E r \in Live :
    /\ gate[r] = "attachUser" /\ fault[r] = "resolved" /\ storeChanges = 0
    /\ locals[r].kind = "object" /\ locals[r].isAdmin = "false"
    /\ findOne(store, locals[r]._id).isAdmin = "undefined"

\* The resolvers of a route, and how many of them it holds.
Resolvers == {"attachUser", "optionalAuth"}
ResolverRuns(route) ==
  Cardinality({i \in 1..Len(route) : route[i] \in Resolvers})

\* The one identity a session and the users collection determine.
Published(sess, users) ==
  IF ~HasUserId(sess) \/ ~IsValid(sess.userId)
  THEN Null
  ELSE LET user == findOne(users, ObjectId(sess.userId))
       IN IF user.kind # "object"
          THEN Null
          ELSE [kind |-> "object", _id |-> user._id, name |-> user.name,
                email |-> user.email,
                isAdmin |-> IF user.isAdmin \in Falsy THEN "false"
                            ELSE user.isAdmin]

\* C13: with the store unchanged and answering, a resolver that has run to
\* its end has published the one identity the session and the store
\* determine, whether it is the first resolver of the request or a later
\* one: a second run publishes what the first did.
C13_ResolverIdempotent ==
  \A r \in Live :
    (/\ gate[r] \in Resolvers /\ pc[r] # "lookup"
     /\ storeChanges = 0 /\ fault[r] \notin StoreFaults) =>
      locals[r] = Published(session[r], store)

\* C13 witness: attachUser globally, then optionalAuth on the route, and the
\* second run has published the user again.
C13_Witness ==
  \E r \in Live :
    /\ ResolverRuns(ran[r]) = 2 /\ ran[r][1] = "attachUser"
    /\ gate[r] = "optionalAuth" /\ pc[r] # "lookup"
    /\ storeChanges = 0 /\ fault[r] = "resolved"
    /\ locals[r].kind = "object"

\* C14 (the claim as stated): no step of the pipeline changes a request's
\* session: every field has the value it had on entry.
C14_SessionReadOnly_AsStated ==
  [][\A r \in Reqs : session'[r] = session[r]]_vars

\* The step is requireAuth entered for request r.
EntersRequireAuth(r) ==
  ran'[r] = Append(ran[r], "requireAuth")

\* C14: the session is never removed and its user identifier never
\* changes; the only step that changes a session is requireAuth refusing an
\* interactive request whose session has no user identifier, and what it
\* changes is returnTo, set to the path the caller asked for.
C14_SessionWrittenOnlyForReturnPath ==
  [][\A r \in Reqs :
       session'[r] # session[r] =>
         /\ EntersRequireAuth(r)
         /\ session[r].present /\ ~Truthy(session[r].userId)
         /\ ~UnderApi(req[r])
         /\ session'[r] = [session[r] EXCEPT !.returnTo = AskedPath(req[r])]]_vars

\* C14 witness: after attachUser and requireAuth the session of an
\* anonymous page request carries the asked path and its empty userId.
C14_Witness ==
  \E r \in Live :
    /\ ran[r] = <<"attachUser", "requireAuth">>
    /\ session[r].present /\ session[r].userId = "''"
    /\ session[r].returnTo # NoPath
    /\ session[r].returnTo = AskedPath(req[r])

\* What a step changed of request r: its request and session, its
\* res.locals.user, its response, its place in the pipeline.
Touched(r) ==
  \/ req'[r] # req[r] \/ session'[r] # session[r] \/ locals'[r] # locals[r]
  \/ response'[r] # response[r] \/ nexts'[r] # nexts[r]
  \/ pc'[r] # pc[r] \/ gate'[r] # gate[r] \/ ran'[r] # ran[r]

\* The decision of the gate request r went through last, as its own
\* session, path and published user fix it.
OwnDecision(r) ==
  /\ gate[r] = "requireAuth" =>
       /\ nexts[r] = 1 <=> HasUserId(session[r])
       /\ pc[r] = "responded" =>
            response[r] = <<IF UnderApi(req[r]) THEN Unauthorized401
                            ELSE LoginRedirect>>
  /\ gate[r] = "requireAdmin" =>
       /\ nexts[r] = 1 <=> IsAdminUser(locals[r])
       /\ nexts[r] = 0 =>
            /\ Len(response[r]) = 1
            /\ response[r][1].kind = IF UnderApi(req[r]) THEN "json" ELSE "redirect"

\* C15: with two requests in flight, a step touches one request only and
\* never the shared configuration; a published user is the one the
\* request's own session names, and, the store unchanged and answering,
\* the one its own session and the store determine; and a gate decides by
\* the request's own session, path and published user.
C15_NoCrossPublishing ==
  /\ [][/\ config' = config
        /\ \A r1, r2 \in Reqs :
             r1 # r2 => ~(Touched(r1) /\ Touched(r2))]_vars
  /\ [](\A r \in Live :
          /\ locals[r].kind = "object" =>
               (HasUserId(session[r]) /\ locals[r]._id = ObjectId(session[r].userId))
          /\ (/\ gate[r] \in Resolvers /\ pc[r] # "lookup"
              /\ storeChanges = 0 /\ fault[r] \notin StoreFaults) =>
               locals[r] = Published(session[r], store)
          /\ OwnDecision(r))

\* C15 witness: while the first request is suspended in its lookup, the
\* second has been through a resolver and carries its own user, another one.
C15_Witness ==
  /\ Live = Reqs
  /\ pc[1] = "lookup" /\ session[1].userId = "h1"
  /\ gate[2] \in Resolvers /\ pc[2] = "idle"
  /\ locals[2].kind = "object" /\ locals[2]._id = ObjectId("h2")

\* requireAuth has refused request r and its response is out.
Refused(r) ==
  gate[r] = "requireAuth" /\ ~HasUserId(session[r]) /\ pc[r] = "responded"

\* C16: of two requests for the same path that requireAuth has refused,
\* one without a session container and one whose session has no user
\* identifier, both got the same response; and a refused request never
\* gets anything but one 401 body or one redirect to the login URL.
C16_SameRefusal ==
  /\ \A r1, r2 \in Live :
       (/\ Refused(r1) /\ Refused(r2) /\ req[r1] = req[r2]
        /\ ~session[r1].present /\ session[r2].present) =>
         response[r1] = response[r2]
  /\ \A r \in Live :
       (gate[r] = "requireAuth" /\ ~HasUserId(session[r])) =>
         /\ nexts[r] = 0
         /\ \/ pc[r] = "saving" /\ response[r] = << >>
            \/ pc[r] = "responded" /\
                 response[r] \in {<<Unauthorized401>>, <<LoginRedirect>>}

\* C16 witness: a page request with an anonymous session and the same
\* request without a session container were both redirected to login.
C16_Witness ==
  \E r1, r2 \in Live :
    /\ Refused(r1) /\ Refused(r2) /\ req[r1] = req[r2]
    /\ ~session[r1].present /\ session[r2].present
    /\ saveErr[r2] # "none"
    /\ response[r2] = <<LoginRedirect>>

\* createSessionConfig has been called with the options of the state.
Called == sessionParams # NotCalled
\* The options carry a non-empty string in field k.
Given(k) == k \in DOMAIN sessionOptions /\ sessionOptions[k] # ""
\* The options name the production environment.
Production ==
  "isProduction" \in DOMAIN sessionOptions /\ sessionOptions.isProduction

\* C17: called with a non-empty secret, a non-empty mongoUri, the production
\* flag and no maxAge, createSessionConfig returns a value whose cookie
\* lives 86400000 ms, is secure, httpOnly and sameSite 'lax', whose name
\* is 'data-api.sid' and whose database is 'datas'; the secret is the one
\* given.
C17_ProductionDefaults ==
  (/\ Called /\ Given("secret") /\ Given("mongoUri") /\ Production
   /\ "maxAge" \notin DOMAIN sessionOptions) =>
    /\ sessionParams.kind = "value"
    /\ sessionParams.cookie.maxAge = 86400000
    /\ sessionParams.cookie.secure = TRUE
    /\ sessionParams.cookie.httpOnly = TRUE
    /\ sessionParams.cookie.sameSite = "lax"
    /\ sessionParams.name = "data-api.sid"
    /\ sessionParams.databaseName = "datas"
    /\ sessionParams.secret = sessionOptions.secret

\* C17 witness: such a call has returned.
C17_Witness ==
  /\ Called /\ Given("secret") /\ Given("mongoUri") /\ Production
  /\ "maxAge" \notin DOMAIN sessionOptions
  /\ sessionParams.kind = "value"

\* The same options for the non-production environment: the flag false,
\* or the flag left out.
NonProduction(options) ==
  { [options EXCEPT !.isProduction = FALSE],
    [k \in DOMAIN options \ {"isProduction"} |-> options[k]] }

\* C18 (the claim as stated): the value returned for production and the
\* value createSessionConfig returns for the same secret, mongoUri and
\* maxAge outside production differ in databaseName and in nothing else.
C18_OnlyDatabaseDiffers_AsStated ==
  (Called /\ sessionParams.kind = "value" /\ Production) =>
    \A o \in NonProduction(sessionOptions) :
      createSessionConfig(o) =
        [sessionParams EXCEPT !.databaseName = "devdatas"]

\* C18: they differ in databaseName, 'devdatas' outside production, and in
\* the cookie's secure flag, false outside production, and in nothing else.
C18_DatabaseAndSecureDiffer ==
  (Called /\ sessionParams.kind = "value" /\ Production) =>
    /\ sessionParams.databaseName = "datas"
    /\ sessionParams.cookie.secure = TRUE
    /\ \A o \in NonProduction(sessionOptions) :
         createSessionConfig(o) =
           [sessionParams EXCEPT !.databaseName = "devdatas",
                                 !.cookie.secure = FALSE]

\* C18 witness: a production call with a maxAge of its own has returned,
\* and the same call outside production names another database.
C18_Witness ==
  /\ Called /\ sessionParams.kind = "value" /\ Production
  /\ "maxAge" \in DOMAIN sessionOptions
  /\ sessionParams.cookie.maxAge = sessionOptions.maxAge
  /\ \E o \in NonProduction(sessionOptions) :
       createSessionConfig(o).databaseName # sessionParams.databaseName

\* C19: called with the secret or the mongoUri missing or empty,
\* createSessionConfig throws its configuration error and returns no
\* value, whatever isProduction and maxAge are.
C19_MissingInputIsError ==
  (Called /\ (~Given("secret") \/ ~Given("mongoUri"))) =>
    /\ sessionParams.kind = "error"
    /\ DOMAIN sessionParams = {"kind", "message"}

\* C19 witness: an empty secret was refused on a production call that gave
\* a mongoUri and a maxAge.
C19_Witness ==
  /\ Called /\ sessionParams.kind = "error"
  /\ Given("mongoUri") /\ Production /\ "maxAge" \in DOMAIN sessionOptions
  /\ "secret" \in DOMAIN sessionOptions /\ sessionOptions.secret = ""

\* C20: requireAuth entered for a request whose session carries a user
\* identifier calls next() once and returns; the step calls neither
\* dbGetter nor findOne, writes no response, and leaves the session,
\* res.locals.user and the store as they were.
C20_AuthenticatedPassesUntouched ==
  [][\A r \in Reqs :
       (EntersRequireAuth(r) /\ HasUserId(session[r])) =>
         /\ nexts'[r] = 1 /\ pc'[r] = "idle"
         /\ dbGets'[r] = 0 /\ lookups'[r] = 0
         /\ response'[r] = << >>
         /\ session' = session
         /\ locals' = locals
         /\ store' = store]_vars

\* C20 witness: requireAuth let a request through whose user attachUser
\* had published, and the user is still published.
C20_Witness ==
  \E r \in Live :
    /\ ran[r] = <<"attachUser", "requireAuth">>
    /\ HasUserId(session[r]) /\ nexts[r] = 1 /\ pc[r] = "idle"
    /\ locals[r].kind = "object"
    /\ session[r].returnTo = NoPath

\* C21 (the claim as stated): for a session whose user identifier is
\* malformed, a resolver publishes no identity and calls next() once
\* without having called dbGetter or findOne.
C21_ValidateBeforeStore ==
  \A r \in Live :
    (/\ gate[r] \in Resolvers
     /\ HasUserId(session[r]) /\ ~IsValid(session[r].userId)) =>
      /\ locals[r] = Null
      /\ nexts[r] = 1
      /\ dbGets[r] = 0
      /\ lookups[r] = 0

\* C22 (the claim as stated): whichever logger is configured, absent,
\* working or failing, no exception escapes a gate, a resolver that is not
\* waiting for the store has called next() once, and requireAuth and
\* requireAdmin decide as the session and the published user say.
C22_LoggerNeverAffectsFlow ==
  \A r \in Live :
    /\ pc[r] # "thrown"
    /\ (gate[r] \in Resolvers /\ pc[r] # "lookup") => nexts[r] = 1
    /\ OwnDecision(r)

\* The step in which a resolver entered for request r calls next(): on its
\* way in, or when findOne has settled.
ResolverContinues(r) ==
  /\ gate'[r] \in Resolvers /\ nexts'[r] = 1
  /\ ran'[r] # ran[r] \/ pc[r] = "lookup"

\* C23: when a resolver calls next(), res.locals.user is null or the
\* snapshot of the record the store holds now under the session's user
\* identifier, whatever it held before; it is null when the session names
\* no record.
C23_NoEarlierIdentitySurvives ==
  [][\A r \in Reqs :
       ResolverContinues(r) =>
         \/ locals'[r] = Null
         \/ locals'[r] = Published(session'[r], store')]_vars

\* C23 witness: the user attachUser published passed requireAdmin, was then
\* deleted, and optionalAuth has looked the session up again and published
\* null.
C23_Witness ==
  \E r \in Live :
    /\ ran[r] = <<"attachUser", "requireAdmin", "optionalAuth">>
    /\ pc[r] = "idle" /\ nexts[r] = 1 /\ fault[r] = "resolved"
    /\ findOne(store, LookupKey(r)) = NoRecord
    /\ locals[r] = Null
====
